---- MODULE Spec2Model ----
(***************************************************************************)
(* Google Drive sync plug-in: the Operation Log (settings.operations), the *)
(* Remote-ID Index (settings.driveIdToPath), the Sync Checkpoint           *)
(* (lastSyncedAt, changesToken), the syncing flag, and the push and pull   *)
(* reconcilers, stepped at their awaits.                                   *)
(*                                                                         *)
(* A path is the tuple of its segments ("X/y" is <<"X", "y">>), so that    *)
(* path.split("/").length is Len.  Whether a path names a folder or a file *)
(* is fixed per path (Dirs).                                               *)
(***************************************************************************)
EXTENDS Integers, Sequences, FiniteSets, TLC

X == <<"X">>
XZ == <<"X", "Z">>
Xy == <<"X", "y">>
GitC == <<".git", "c">>
\* A note whose name begins with a dot.
Dot == <<".n">>
\* An internal file: it is in the config folder, on disk, and the vault does
\* not track it (vault.getAbstractFileByPath gives null for it).
ConfigDir == <<".obsidian">>
Cfg == <<".obsidian", "app.json">>
Internal == {Cfg}

\* The vault paths of the model: folder X, its sub-folder X/Z, its note X/y.
Dirs == {X, XZ}
Files == {Xy}
Paths == Dirs \cup Files
\* fileName.startsWith("."), for the names of the model
DotNames == {".n"}
IsHidden(p) == Len(p) > 0 /\ p[Len(p)] \in DotNames
\* The paths the log is defined on: the vault paths, a hidden note, an
\* internal file, and one path that shouldSyncFile excludes.
LogPaths == Paths \cup {Dot, GitC} \cup Internal
Hidden == {p \in LogPaths : IsHidden(p)}
\* what the log can hold an entry for
VaultPaths == Paths \cup Hidden

NoPath == <<>>
OpKinds == {"none", "create", "modify", "delete"}

\* file instanceof TFile / TFolder
IsTFile(p) == p \in Files \cup {Dot, GitC} \cup Internal
IsTFolder(p) == p \in Dirs

Depth(p) == Len(p)
Parent(p) == SubSeq(p, 1, Len(p) - 1)
\* q.startsWith(p + "/")
IsUnder(q, p) == Len(q) > Len(p) /\ SubSeq(q, 1, Len(p)) = p

\* Remote object ids; 0 stands for "no id" (undefined).
MaxIds == 5
Ids == 1..MaxIds
NoId == 0

\* Bounds of a behaviour: the events of the user and of the other party on
\* the remote store, those of them that fall inside a running sync, the
\* remote calls that fail, the invocations of push and pull.
MaxEvents == 2
MaxLive == 1
MaxFaults == 1
MaxSyncs == 2

VARIABLES
  ops,          \* settings.operations: path -> pending kind ("none": no entry)
  expected,     \* the section 4.1 table replayed on the same events
  ev,           \* the last local event: <<kind, path, old path>>
  idx,          \* settings.driveIdToPath: id -> path (NoPath: no entry)
  lastSyncedAt, \* settings.lastSyncedAt
  changesToken, \* settings.changesToken: a position in the change feed
  syncing,      \* t.syncing
  local,        \* the paths present in the local store
  robj,         \* the remote store: id -> [st, path, mtime, born]
  feed,         \* the remote change feed: the ids removed, in order
  clock,        \* Date.now()
  task,         \* the invocations of push / pull / the startup pull in progress
  ret,          \* what the invocation that returned last observed as it returned
  left          \* what is left of each bound: events, faults, invocations

logVars == <<ops, expected, ev>>
settingsVars == <<idx, lastSyncedAt, changesToken, syncing>>
worldVars == <<local, robj, feed, clock>>
vars == <<ops, expected, ev, idx, lastSyncedAt, changesToken, syncing,
          local, robj, feed, clock, task, ret, left>>

(***************************************************************************)
(* Local mutation-event handlers                                           *)
(***************************************************************************)

\* A segment stands for itself: includes(".DS_Store") is "some segment is
\* .DS_Store", startsWith(".git/") is "the first segment is .git".
shouldSyncFile(p) ==
  ~ \/ \E i \in 1..Len(p) : p[i] = ".DS_Store"
    \/ (Len(p) > 1 /\ p[1] = ".git")
    \/ (Len(p) > 1 /\ p[1] = "node_modules")
    \/ \E i \in 1..(Len(p) - 1) :
         p[i] = ".obsidian" /\ p[i + 1] \in {"workspace.json", "workspace-mobile.json"}

\* handleCreate without its look at a pending delete.
handleCreateDeleteToCreate(o, p) ==
  IF shouldSyncFile(p) THEN [o EXCEPT ![p] = "create"] ELSE o

handleCreate(o, p) ==
  IF shouldSyncFile(p)
  THEN IF o[p] = "delete"
       THEN IF IsTFile(p) THEN [o EXCEPT ![p] = "modify"]
                          ELSE [o EXCEPT ![p] = "none"]
       ELSE [o EXCEPT ![p] = "create"]
  ELSE o

handleDelete(o, p) ==
  IF shouldSyncFile(p)
  THEN IF o[p] = "create" THEN [o EXCEPT ![p] = "none"]
                          ELSE [o EXCEPT ![p] = "delete"]
  ELSE o

handleModify(o, p) ==
  IF shouldSyncFile(p)
  THEN IF o[p] \in {"create", "modify"} THEN o
                                        ELSE [o EXCEPT ![p] = "modify"]
  ELSE o

\* handleDelete({...file, path: oldPath}); handleCreate(file)
handleRename(o, new, old) == handleCreate(handleDelete(o, old), new)

\* The local writes of the reconciler.  Each reads oldOperation =
\* operations[path] from the log o, awaits the write, whose event has left the
\* log o1, and ends with operations[path] = oldOperation;
\* if (!oldOperation) delete operations[path].

\* The end of a write that puts nothing back.
Unrestored(o1, o, p) == o1

Restored(o1, o, p) == [o1 EXCEPT ![p] = o[p]]

\* vault.createFolder(path) raises create
createFolder(o, p) == Restored(handleCreate(o, p), o, p)
\* vault.createBinary(path, ...) raises create
createFile(o, p) == Restored(handleCreate(o, p), o, p)
\* vault.modifyBinary(file, ...) raises modify
modifyFile(o, p) == Restored(handleModify(o, p), o, p)
\* adapter.writeBinary(file, ...) raises modify for a file that is there, and
\* create for one that is not
upsertFile(o, p, present) ==
  Restored(IF present THEN handleModify(o, p) ELSE handleCreate(o, p), o, p)

(***************************************************************************)
(* The local store, the remote store and the index                         *)
(***************************************************************************)

Max(S) == CHOOSE m \in S : \A n \in S : n <= m
Min(S) == CHOOSE m \in S : \A n \in S : m <= n

NoOps == [p \in LogPaths |-> "none"]
NoIdx == [i \in Ids |-> NoPath]
FreeObj == [st |-> "free", path |-> NoPath, mtime |-> 0, born |-> 0]

Live(i) == IF i \in Ids THEN robj[i].st = "live" ELSE FALSE
FreeIds == {i \in Ids : robj[i].st = "free"}
\* the remote store hands out ids it never handed out before
FreshId == Min(FreeIds)

\* Object.fromEntries(Object.entries(driveIdToPath).map(([id, path]) => [path, id])):
\* of two ids with one path the later entry wins; entries are added in the
\* order the remote store hands out ids.
InvertIndex(m) ==
  [p \in VaultPaths |->
     LET s == {i \in Ids : m[i] = p} IN IF s = {} THEN NoId ELSE Max(s)]

\* Object.fromEntries(Object.entries(pathToId).map(([path, id]) => [id, path]))
IndexOf(pt) ==
  [i \in Ids |->
     IF \E p \in Paths : pt[p] = i THEN CHOOSE p \in Paths : pt[p] = i ELSE NoPath]

\* The key under which driveIdToPath holds id i.  No path is such a key.
IdKey(i) == <<"id", ToString(i)>>
IdKeys(S) == {IdKey(i) : i \in S}
\* delete m[k] for every k of keys
DeleteKeys(m, keys) == [i \in Ids |-> IF IdKey(i) \in keys THEN NoPath ELSE m[i]]

RECURSIVE SeqOf(_)
SeqOf(S) == IF S = {} THEN <<>> ELSE <<Min(S)>> \o SeqOf(S \ {Min(S)})

\* What the vault tracks of what is on disk (vault.getAbstractFileByPath).
Vault(loc) == loc \ Internal

\* folder.children
Children(d, loc) == {q \in loc : Len(q) > 0 /\ Parent(q) = d}
Under(d, S) == {q \in S : IsUnder(q, d)}

\* The handlers run for a list of paths, one after the other.
RECURSIVE FoldDelete(_, _)
FoldDelete(o, S) ==
  IF S = {} THEN o
  ELSE LET q == CHOOSE q \in S : \A r \in S : Len(r) <= Len(q)
       IN FoldDelete(handleDelete(o, q), S \ {q})

\* The vault removes a folder with everything under it and raises "delete"
\* for each entry removed, the deepest first.
RemoveLocal(loc, p) == loc \ ({p} \cup Under(p, loc))
DeleteEvents(o, loc, p) == FoldDelete(o, ({p} \cap loc) \cup Under(p, loc))

(***************************************************************************)
(* Invocations                                                             *)
(***************************************************************************)

Idle ==
  [kind |-> "idle", pc |-> "idle",
   recent |-> {}, removed |-> {}, deletions |-> {},
   pathToId |-> [p \in Paths |-> NoId],
   deletes |-> {}, creates |-> {}, modifies |-> {},
   depth |-> 0, pending |-> {}, settled |-> {}, fetch |-> {}, modq |-> {},
   files |-> {}, made |-> {},
   failed |-> FALSE, threw |-> FALSE, unapplied |-> {},
   log0 |-> [p \in LogPaths |-> "none"], loc0 |-> {},
   dl |-> {}, wr |-> {}, gone |-> {}, quiet |-> TRUE, prev |-> "none",
   cp0 |-> <<0, 0>>, entry |-> {}, pullOver |-> FALSE, collapsed |-> {},
   in0 |-> <<0, 0, FALSE>>, internal |-> {}, late |-> {},
   window |-> {}, delmod |-> {}]

\* what the pull part of an invocation noted, forgotten once it is over
Forget(t) ==
  [t EXCEPT !.recent = {}, !.removed = {}, !.deletions = {},
            !.log0 = Idle.log0, !.loc0 = {}, !.dl = {}, !.wr = {}, !.gone = {},
            !.collapsed = {}, !.in0 = Idle.in0, !.internal = {}]

NoRet ==
  [kind |-> "none", outcome |-> "none", failed |-> FALSE,
   lost |-> {}, cpMoved |-> FALSE, quiet |-> FALSE, entry |-> {},
   pullMoved |-> FALSE, window |-> {}, stamped |-> FALSE]

\* A slot holds one invocation at a time; a slot that is off holds none, ever.
Off == [Idle EXCEPT !.kind = "off"]
Slots == {1, 2}
Running(i) == task[i].kind \notin {"idle", "off"}
Set(i, r) == task' = [task EXCEPT ![i] = r]

Checkpoint == <<lastSyncedAt, changesToken>>
AnyRunning == \E i \in Slots : Running(i)
Budget == [ev |-> MaxEvents, live |-> MaxLive, fault |-> MaxFaults, sync |-> MaxSyncs]

\* The settings a previous session left: the entries of S are in step on
\* both sides, and nothing is pending; H is what the vault holds besides.
SyncedSets == {{}, {X}, {X, XZ}, {X, Xy}, {X, XZ, Xy}}
IdAt(p) == CASE p = X -> 1 [] p = XZ -> 2 [] p = Xy -> 3 [] p = Cfg -> 4

InitWorldWith(S, H) ==
  /\ ops = NoOps
  /\ expected = NoOps
  /\ ev = <<"none", NoPath, NoPath>>
  /\ idx = [i \in Ids |-> IF \E p \in S : IdAt(p) = i
                          THEN CHOOSE p \in S : IdAt(p) = i ELSE NoPath]
  /\ lastSyncedAt = 0
  /\ changesToken = 0
  /\ syncing = FALSE
  /\ local = S \cup H
  /\ robj = [i \in Ids |-> IF \E p \in S : IdAt(p) = i
                           THEN [st |-> "live",
                                 path |-> CHOOSE p \in S : IdAt(p) = i,
                                 mtime |-> 0, born |-> 0]
                           ELSE FreeObj]
  /\ feed = <<>>
  /\ clock = 0
  /\ ret = NoRet

InitWorld(S) == InitWorldWith(S, {})

(***************************************************************************)
(* The user and the other party on the remote store.  Time passes between  *)
(* any two stamps: a remote change and a checkpoint each move the clock.   *)
(***************************************************************************)

UseEvent ==
  /\ left.ev > 0
  /\ AnyRunning => left.live > 0
  /\ left' = [left EXCEPT !.ev = @ - 1,
                          !.live = IF AnyRunning THEN @ - 1 ELSE @]

\* every invocation in progress has seen an event pass, and what the last
\* return observed is no longer what holds
Disturb ==
  /\ task' = [i \in Slots |-> [task[i] EXCEPT !.quiet = FALSE, !.late = {}]]
  /\ ret' = NoRet

LocalCreate(p) ==
  /\ p \notin local
  /\ Len(p) = 1 \/ Parent(p) \in local
  /\ UseEvent
  /\ local' = local \cup {p}
  /\ ops' = handleCreate(ops, p)
  /\ Disturb
  /\ UNCHANGED <<expected, ev, settingsVars, robj, feed, clock>>

LocalDelete(p) ==
  /\ p \in local
  /\ UseEvent
  /\ local' = RemoveLocal(local, p)
  /\ ops' = DeleteEvents(ops, local, p)
  /\ Disturb
  /\ UNCHANGED <<expected, ev, settingsVars, robj, feed, clock>>

LocalModify(p) ==
  /\ p \in local
  /\ IsTFile(p)
  /\ UseEvent
  /\ ops' = handleModify(ops, p)
  /\ Disturb
  /\ UNCHANGED <<expected, ev, settingsVars, worldVars>>

\* Another device creates, rewrites or removes an object.
RemoteCreate(p) ==
  /\ FreeIds # {}
  /\ UseEvent
  /\ clock' = clock + 1
  /\ robj' = [robj EXCEPT ![FreshId] = [st |-> "live", path |-> p,
                                        mtime |-> clock', born |-> clock']]
  /\ Disturb
  /\ UNCHANGED <<logVars, settingsVars, local, feed>>

RemoteModify(i) ==
  /\ Live(i)
  /\ UseEvent
  /\ clock' = clock + 1
  /\ robj' = [robj EXCEPT ![i].mtime = clock']
  /\ Disturb
  /\ UNCHANGED <<logVars, settingsVars, local, feed>>

RemoteRemove(i) ==
  /\ Live(i)
  /\ UseEvent
  /\ robj' = [robj EXCEPT ![i].st = "dead", ![i].mtime = 0, ![i].born = 0]
  /\ feed' = Append(feed, i)
  /\ Disturb
  /\ UNCHANGED <<logVars, settingsVars, local, clock>>

(***************************************************************************)
(* Entry, startSync, return                                                *)
(***************************************************************************)

UseSync == left.sync > 0 /\ left' = [left EXCEPT !.sync = @ - 1]
UseFault == left.fault > 0 /\ left' = [left EXCEPT !.fault = @ - 1]

\* What a returning invocation t observes: o is the log and cp the
\* checkpoint it leaves.
Observed(t, outcome, o, cp) ==
  [kind |-> t.kind, outcome |-> outcome, failed |-> t.failed,
   lost |-> {p \in t.unapplied : o[p] = "none"},
   cpMoved |-> cp # t.cp0,
   quiet |-> t.quiet,
   entry |-> t.entry,
   pullMoved |-> t.kind = "initial" /\ t.in0 # <<cp[1], cp[2], syncing>>,
   window |-> t.window,
   stamped |-> t.pc = "es_token" /\ cp[1] # t.cp0[1]]

Return(i, t, outcome, o, cp) ==
  /\ ret' = Observed(t, outcome, o, cp)
  /\ task' = [task EXCEPT ![i] = Idle]

\* What an invocation starts from: the checkpoint, and the kind of the
\* invocation that returned last, if that one ran to its end, nothing failed
\* in it, and no event has passed since it began.
Start(kind, pc) ==
  [Idle EXCEPT !.kind = kind, !.pc = pc, !.cp0 = Checkpoint,
               !.prev = IF ret.quiet /\ ret.outcome = "ok" /\ ~ret.failed
                        THEN ret.kind ELSE "none"]

\* pull(t): if (t.syncing) return; syncNotice = await t.startSync()
InvokePull(i) ==
  /\ task[i].kind = "idle"
  /\ ~syncing
  /\ UseSync
  /\ Set(i, Start("pull", "conn"))
  /\ UNCHANGED <<logVars, settingsVars, worldVars, ret>>

\* searchHiddenFiles(): hiddenFiles.some(f => f.properties?.path === path)
ExistsInDrive(p) == \E j \in Ids : Live(j) /\ robj[j].path = p

\* The pass of push over the local hidden files (lines 316-361): a hidden
\* entry of the vault that the log does not track becomes a create when no
\* remote object is tagged with its path, and a modify when it is a file
\* newer than that object (newer: the paths whose local mtime is the later).
HiddenPass(o, loc, newer) ==
  [p \in LogPaths |->
     IF IsHidden(p) /\ shouldSyncFile(p) /\ o[p] = "none" /\ p \in Vault(loc)
     THEN IF ~ExistsInDrive(p) THEN "create"
          ELSE IF IsTFile(p) /\ p \in newer THEN "modify" ELSE "none"
     ELSE o[p]]

\* The parts of the plug-in's state and of the remote store that a step
\* leaves changed.
Moved ==
  {n \in {"operations", "driveIdToPath", "checkpoint", "syncing", "remote"} :
     CASE n = "operations" -> ops' # ops
       [] n = "driveIdToPath" -> idx' # idx
       [] n = "checkpoint" -> <<lastSyncedAt', changesToken'>> # Checkpoint
       [] n = "syncing" -> syncing' # syncing
       [] n = "remote" -> robj' # robj}

\* push(t): if (t.syncing) return; the steps up to the confirmation follow:
\* the pass over the hidden files, then the modal is opened.
InvokePush(i) ==
  /\ task[i].kind = "idle"
  /\ ~syncing
  /\ UseSync
  /\ \E newer \in SUBSET Hidden : ops' = HiddenPass(ops, local, newer)
  /\ UNCHANGED <<expected, ev, settingsVars, worldVars, ret>>
  /\ Set(i, [Start("push", "modal") EXCEPT !.entry = Moved])

\* onload: checkConnection().then(...), once, as the plug-in loads
InvokeStartup(i) ==
  /\ task[i].kind = "idle"
  /\ ret = NoRet /\ ~AnyRunning
  /\ UseSync
  /\ Set(i, Start("startup", "conn"))
  /\ UNCHANGED <<logVars, settingsVars, worldVars, ret>>

\* The settings tab, as a refresh token is saved: changesToken is fetched and
\* saved; if the vault holds no file, await pull(this.plugin, true) follows,
\* with no look at the syncing flag and no endSync.
InvokeInitial(i) ==
  /\ task[i].kind = "idle"
  /\ local = {}
  /\ UseSync
  /\ changesToken' = Len(feed)
  /\ Set(i, [Start("initial", "search") EXCEPT
               !.in0 = <<lastSyncedAt, Len(feed), syncing>>])
  /\ UNCHANGED <<logVars, idx, lastSyncedAt, syncing, worldVars, ret>>

\* the confirmation modal of push: Confirm
PushConfirm(i) ==
  /\ task[i].pc = "modal"
  /\ Set(i, [task[i] EXCEPT !.pc = "conn"])
  /\ UNCHANGED <<logVars, settingsVars, worldVars, ret, left>>

\* the confirmation modal of push: Cancel
PushCancel(i) ==
  /\ task[i].pc = "modal"
  /\ UNCHANGED <<logVars, settingsVars, worldVars, left>>
  /\ Return(i, [task[i] EXCEPT !.entry = @ \cup Moved], "cancel", ops, Checkpoint)

\* StartSyncOk, with push going on to its own phases at once.
StartSyncOkNoPull(i) ==
  /\ task[i].pc = "conn"
  /\ syncing' = TRUE
  /\ Set(i, IF task[i].kind = "push"
            THEN [task[i] EXCEPT !.pc = "cfgsearch",
                                 !.deletes = {p \in VaultPaths : ops[p] = "delete"},
                                 !.creates = {p \in VaultPaths : ops[p] = "create"},
                                 !.modifies = {p \in VaultPaths : ops[p] = "modify"},
                                 !.unapplied = {p \in VaultPaths : ops[p] # "none"},
                                 !.pathToId = InvertIndex(idx)]
            ELSE [task[i] EXCEPT !.pc = "search"])
  /\ UNCHANGED <<logVars, idx, lastSyncedAt, changesToken, worldVars, ret, left>>

\* startSync, connected (and onload's then-branch): this.syncing = true;
\* push goes on to await pull(t, true)
StartSyncOk(i) ==
  /\ task[i].pc = "conn"
  /\ syncing' = TRUE
  /\ Set(i, [task[i] EXCEPT !.pc = "search",
                            !.in0 = <<lastSyncedAt, changesToken, TRUE>>])
  /\ UNCHANGED <<logVars, idx, lastSyncedAt, changesToken, worldVars, ret, left>>

\* startSync, not connected: throw new Notice(...); onload does nothing
StartSyncOffline(i) ==
  /\ task[i].pc = "conn"
  /\ UseFault
  /\ UNCHANGED <<logVars, settingsVars, worldVars>>
  /\ Return(i, [task[i] EXCEPT !.failed = TRUE, !.entry = @ \cup Moved],
            "offline", ops, Checkpoint)

(***************************************************************************)
(* What follows a pull: nothing (pull), endSync (startup), the partition   *)
(* of the log (push)                                                       *)
(***************************************************************************)

\* push: finalOperations, deletes / creates / modifies, pathsToIds, and the
\* search for the config objects is issued
Partition(t, o, ix) ==
  [t EXCEPT !.pc = "cfgsearch",
            !.deletes = {p \in VaultPaths : o[p] = "delete"},
            !.creates = {p \in VaultPaths : o[p] = "create"},
            !.modifies = {p \in VaultPaths : o[p] = "modify"},
            !.unapplied = {p \in VaultPaths : o[p] # "none"},
            !.pathToId = InvertIndex(ix),
            !.pending = {}, !.settled = {}, !.fetch = {}, !.depth = 0]

\* the pull of t returned a Notice (a fetch failed)
PullFailed(i, t) ==
  LET f == [t EXCEPT !.failed = TRUE] IN
  CASE t.kind \in {"pull", "initial"} ->
         Return(i, f, "notice", ops, Checkpoint)
    [] t.kind = "push" ->
         /\ Set(i, [Partition(f, ops, idx) EXCEPT !.pullOver = TRUE])
         /\ UNCHANGED ret
    [] t.kind = "startup" ->
         /\ Set(i, [f EXCEPT !.pc = "es_stamp"])
         /\ UNCHANGED ret

\* PullDone, with endSync run by the pull whoever called it.
PullDoneEndsSync(i, t, o, ix) ==
  /\ Set(i, [t EXCEPT !.pc = "es_stamp"])
  /\ UNCHANGED ret

\* the pull of t ran to its end, leaving log o and index ix: if
\* (silenceNotices) return; await t.endSync(syncNotice)
PullDone(i, t, o, ix) ==
  CASE t.kind = "push" ->
         /\ Set(i, [Partition(t, o, ix) EXCEPT !.pullOver = TRUE])
         /\ UNCHANGED ret
    [] t.kind = "initial" ->
         Return(i, t, "ok", o, Checkpoint)
    [] OTHER ->
         /\ Set(i, [t EXCEPT !.pc = "es_stamp"])
         /\ UNCHANGED ret

\* a call inside the pull of t threw: pull rejects, and so does its caller
\* (the settings tab catches it)
PullThrew(i, t) ==
  Return(i, [t EXCEPT !.failed = TRUE], "threw", ops, Checkpoint)

(***************************************************************************)
(* pull                                                                    *)
(***************************************************************************)

Tag(i) == robj[i].path

\* searchFiles({modifiedTime: {gt: lastSyncedAt}}) and the hidden files newer
\* than lastSyncedAt
RecentlyModified == {i \in Ids : Live(i) /\ robj[i].mtime > lastSyncedAt}

\* The notes whose entry is delete and whose indexed object the search
\* returns.
DeletedAndModified ==
  {p \in Files : /\ ops[p] = "delete"
                 /\ \E n \in RecentlyModified : Tag(n) = p /\ idx[n] = p}

PullSearch(i) ==
  /\ task[i].pc = "search"
  /\ Set(i, [task[i] EXCEPT !.pc = "changes", !.recent = RecentlyModified,
                            !.log0 = ops, !.loc0 = local,
                            !.delmod = IF task[i].kind = "push"
                                       THEN DeletedAndModified ELSE {}])
  /\ UNCHANGED <<logVars, settingsVars, worldVars, ret, left>>

\* if (!t.accessToken.token) await refreshAccessToken(t): no token is held
\* and the refresh fails.  refreshAccessToken answers with a falsy value
\* then (the settings tab tests it), pull drops the answer, and searchFiles
\* is issued with no credential.
PullRefreshFails(i) ==
  /\ task[i].pc = "search"
  /\ UseFault
  /\ Set(i, [task[i] EXCEPT !.pc = "unauth", !.failed = TRUE])
  /\ UNCHANGED <<logVars, settingsVars, worldVars, ret>>

\* the search issued with no credential is answered by the failure sentinel
PullSearchUnauthorized(i) ==
  /\ task[i].pc = "unauth"
  /\ PullFailed(i, task[i])
  /\ UNCHANGED <<logVars, settingsVars, worldVars, left>>

\* if (!recentlyModified) return new Notice(...)
PullSearchFails(i) ==
  /\ task[i].pc = "search"
  /\ UseFault
  /\ PullFailed(i, task[i])
  /\ UNCHANGED <<logVars, settingsVars, worldVars>>

\* getChanges(changesToken): the removals after the token
Removed == {feed[k] : k \in (changesToken + 1)..Len(feed)}

\* The removals resolved through the index (lines 65-79).
Resolved(rm) == {idx[i] : i \in {j \in rm : idx[j] # NoPath}}
RedundantDeletes(rm) ==
  {p \in Resolved(rm) : p \notin Vault(local) /\ ops[p] = "delete"}
\* OpsResolved, with the log left as it is.
OpsResolvedKeepsEntry(rm) == ops

OpsResolved(rm) ==
  [p \in LogPaths |-> IF p \in RedundantDeletes(rm) THEN "none" ELSE ops[p]]
\* the entries of deletions that are files or folders of the vault
Deletions(rm) == Resolved(rm) \cap Vault(local)

\* updateMap: pathToId[properties.path] = id for every recent object; of two
\* recent objects with one path the later of the list wins, and the remote
\* store orders the list
UpdateMaps(base, rec) ==
  {m \in [Paths -> Ids \cup {NoId}] :
     \A p \in Paths :
       LET c == {i \in rec : Tag(i) = p}
       IN IF c = {} THEN m[p] = base[p] ELSE m[p] \in c}

\* updateMap, the index rebuilt: the entries of the vault paths from pt; an
\* internal path has one object at most, and keeps its entry or, when its
\* object is among the recent ones, gets it
IndexWith(pt, ix, rec) ==
  [i \in Ids |->
     IF IndexOf(pt)[i] # NoPath THEN IndexOf(pt)[i]
     ELSE IF i \in rec /\ Tag(i) \in Internal THEN Tag(i)
     ELSE IF ix[i] \in Internal THEN ix[i]
     ELSE NoPath]

\* deleteFiles, the files kept: a note with a pending modify stays, and is
\* a create when no id maps to it any more
DeletedFiles(del, o) == {p \in del : IsTFile(p) /\ o[p] # "modify"}
ModifyToCreate(del, o, pt) ==
  {p \in del : IsTFile(p) /\ o[p] = "modify" /\ pt[p] = NoId}

\* deleteFiles, the folders (lines 120-132)
DeletedFolders(del, pt) ==
  {d \in del : /\ IsTFolder(d)
               /\ pt[d] = NoId
               /\ \E c \in Children(d, local) : c \notin del}
FolderToCreate(del, pt) ==
  {d \in del : IsTFolder(d) /\ pt[d] = NoId} \ DeletedFolders(del, pt)

OpsFiltered(o, del, pt) ==
  [p \in LogPaths |->
     IF p \in ModifyToCreate(del, o, pt) \cup FolderToCreate(del, pt)
     THEN "create" ELSE o[p]]

PullChanges(i) ==
  /\ task[i].pc = "changes"
  /\ LET t == task[i]
         rm == Removed
         o1 == OpsResolved(rm)
         ix1 == DeleteKeys(idx, IdKeys(rm))
     IN IF t.recent = {} /\ rm = {}
        THEN \* nothing to do: return (silent) or endSync and "up to date"
             /\ ops' = o1
             /\ idx' = ix1
             /\ PullDone(i, t, o1, ix1)
        ELSE \E pt \in UpdateMaps(InvertIndex(ix1), t.recent) :
               LET del == Deletions(rm)
                   o2 == OpsFiltered(o1, del, pt)
               IN /\ ops' = o2
                  /\ idx' = IndexWith(pt, ix1, t.recent)
                  /\ Set(i, [t EXCEPT !.pc = "delete",
                                      !.removed = rm,
                                      !.collapsed = RedundantDeletes(rm),
                                      !.internal =
                                        (Resolved(rm) \cap local) \ Vault(local),
                                      !.deletions = del,
                                      !.pathToId = pt,
                                      !.pending = DeletedFolders(del, pt)
                                                    \cup DeletedFiles(del, o1)])
                  /\ UNCHANGED ret
  /\ UNCHANGED <<expected, ev, lastSyncedAt, changesToken, syncing, worldVars,
                 left>>

\* if (!changes) return new Notice(...)
PullChangesFails(i) ==
  /\ task[i].pc = "changes"
  /\ UseFault
  /\ PullFailed(i, task[i])
  /\ UNCHANGED <<logVars, settingsVars, worldVars>>

\* t.deleteFile(file): trashFile(file), which raises the delete events, then
\* delete operations[file.path]
DeleteFileLocal(loc, p) == RemoveLocal(loc, p)
DeleteFileOps(o, loc, p) == [DeleteEvents(o, loc, p) EXCEPT ![p] = "none"]

\* deleteFilesMinimumOperations: folders first, the top-most first; what lies
\* under a folder just removed is dropped from the list; then the files.
NextToDelete(S) ==
  IF S \cap Dirs # {}
  THEN CHOOSE d \in S \cap Dirs : \A e \in S \cap Dirs : Len(d) <= Len(e)
  ELSE CHOOSE f \in S : TRUE

RECURSIVE deleteFilesMinimumOperations(_, _, _)
deleteFilesMinimumOperations(loc, o, S) ==
  IF S = {} THEN [loc |-> loc, o |-> o]
  ELSE LET f == NextToDelete(S)
       IN deleteFilesMinimumOperations(
            DeleteFileLocal(loc, f), DeleteFileOps(o, loc, f),
            S \ ({f} \cup Under(f, S)))

PullDelete(i) ==
  /\ task[i].pc = "delete"
  /\ LET r == deleteFilesMinimumOperations(local, ops, task[i].pending)
     IN /\ local' = r.loc
        /\ ops' = r.o
  /\ Set(i, [task[i] EXCEPT !.pc = "folders", !.pending = {}, !.depth = 1,
                            !.gone = local \ local'])
  /\ UNCHANGED <<expected, ev, settingsVars, robj, feed, clock, ret, left>>

\* upsertFiles, the folders: foldersToBatches gives one batch per depth
NewFolders(t) == {Tag(i) : i \in {j \in t.recent : IsTFolder(Tag(j))}}
NewNotes(t) == {i \in t.recent : IsTFile(Tag(i))}
foldersToBatches(S, k) == {d \in S : Depth(d) = k}
MaxDepth(S) == IF S = {} THEN 0 ELSE Max({Depth(d) : d \in S})

\* vault.createFolder makes the missing ancestors too; "create" is raised
\* for each folder made, and t.createFolder puts the entry of its own path
\* back to what it was
RECURSIVE Missing(_, _)
Missing(loc, d) ==
  IF Len(d) = 0 \/ d \in loc THEN {} ELSE {d} \cup Missing(loc, Parent(d))

RECURSIVE FoldCreate(_, _)
FoldCreate(o, S) ==
  IF S = {} THEN o
  ELSE LET q == CHOOSE q \in S : \A r \in S : Len(q) <= Len(r)
       IN FoldCreate(handleCreate(o, q), S \ {q})

createFolderOps(o, loc, d) ==
  Restored(FoldCreate(o, Missing(loc, d)), o, d)

\* one batch: delete operations[folder]; create the folder unless it exists
RECURSIVE UpsertFolderBatch(_, _, _)
UpsertFolderBatch(loc, o, B) ==
  IF B = {} THEN [loc |-> loc, o |-> o]
  ELSE LET d == CHOOSE d \in B : TRUE
           o1 == [o EXCEPT ![d] = "none"]
       IN IF d \in loc
          THEN UpsertFolderBatch(loc, o1, B \ {d})
          ELSE UpsertFolderBatch(loc \cup Missing(loc, d),
                                 createFolderOps(o1, loc, d), B \ {d})

PullFolders(i) ==
  /\ task[i].pc = "folders"
  /\ task[i].depth <= MaxDepth(NewFolders(task[i]))
  /\ LET t == task[i]
         B == foldersToBatches(NewFolders(t), t.depth)
         r == UpsertFolderBatch(local, ops, B)
     IN /\ local' = r.loc
        /\ ops' = r.o
        /\ Set(i, [t EXCEPT !.depth = @ + 1, !.wr = @ \cup (r.loc \ local)])
  /\ UNCHANGED <<expected, ev, settingsVars, robj, feed, clock, ret, left>>

\* upsertFiles, the notes.  Every closure of batchAsyncs starts at once.  A
\* note the vault holds (vault.getFileByPath) is decided on the spot; for
\* the others adapter.exists is awaited first.
InVault(n) == Tag(n) \in Vault(local)

\* if (localFile && operation === "modify") return;
\* if (localFile && operation === "create") { operations[path] = "modify"; return }
UpsertSkips(present, op) == present /\ op = "modify"
UpsertFlips(present, op) == present /\ op = "create"
UpsertDownloads(present, op) == ~UpsertSkips(present, op) /\ ~UpsertFlips(present, op)

PullNotesStart(i) ==
  /\ task[i].pc = "folders"
  /\ task[i].depth > MaxDepth(NewFolders(task[i]))
  /\ LET t == task[i]
         here == {n \in NewNotes(t) : InVault(n)}
         get == {n \in here : UpsertDownloads(TRUE, ops[Tag(n)])}
     IN /\ ops' = [p \in LogPaths |->
                     IF \E n \in here : Tag(n) = p /\ UpsertFlips(TRUE, ops[p])
                     THEN "modify" ELSE ops[p]]
        /\ Set(i, [t EXCEPT !.pc = "notes",
                            !.fetch = {<<n, "tfile">> : n \in get}
                                        \cup {<<n, "probe">> : n \in NewNotes(t) \ here},
                            !.dl = @ \cup {Tag(n) : n \in get}])
  /\ UNCHANGED <<expected, ev, settingsVars, worldVars, ret, left>>

\* adapter.exists(path) answered for a note the vault did not hold
PullProbe(i, n) ==
  /\ task[i].pc = "notes"
  /\ <<n, "probe">> \in task[i].fetch
  /\ LET t == task[i]
         p == Tag(n)
         present == p \in local
         rest == t.fetch \ {<<n, "probe">>}
     IN IF UpsertDownloads(present, ops[p])
        THEN /\ Set(i, [t EXCEPT !.fetch = rest \cup {<<n, "raw">>},
                                 !.dl = @ \cup {p}])
             /\ ops' = ops
        ELSE /\ Set(i, [t EXCEPT !.fetch = rest])
             /\ ops' = IF UpsertFlips(present, ops[p])
                       THEN [ops EXCEPT ![p] = "modify"] ELSE ops
  /\ UNCHANGED <<expected, ev, settingsVars, worldVars, ret, left>>

\* getFile(id) answered, then t.modifyFile (a TFile) or t.upsertFile (a path).
\* The write raises its event and the entry of the path is put back, so the
\* log is as before.  The download of an object removed meanwhile throws, and
\* so does the write to a note deleted meanwhile or under a missing folder.
CanWrite(p, how) ==
  IF how = "tfile" THEN p \in local
  ELSE Len(p) = 1 \/ Parent(p) \in local \/ Parent(p) = ConfigDir

PullWrite(i, n, how) ==
  /\ task[i].pc = "notes"
  /\ how \in {"tfile", "raw"}
  /\ <<n, how>> \in task[i].fetch
  /\ LET t == task[i]
         p == Tag(n)
         rest == t.fetch \ {<<n, how>>}
     IN IF Live(n) /\ CanWrite(p, how)
        THEN /\ local' = local \cup {p}
             /\ ops' = IF how = "tfile" THEN modifyFile(ops, p)
                                        ELSE upsertFile(ops, p, p \in local)
             /\ Set(i, [t EXCEPT !.fetch = rest, !.wr = @ \cup {p}])
        ELSE /\ local' = local
             /\ ops' = ops
             /\ Set(i, [t EXCEPT !.fetch = rest, !.threw = TRUE])
  /\ UNCHANGED <<expected, ev, settingsVars, robj, feed, clock, ret, left>>

\* deleteConfigs, the paths it removes from disk: of each removed change, the
\* path the index holds for its id at this point, when the vault does not
\* track it and it is on disk
deleteConfigs(rm) ==
  {p \in {idx[j] : j \in rm} :
     p # NoPath /\ p \notin Vault(local) /\ p \in local}

\* batchAsyncs settled; deleteConfigs follows, unless upsertFiles threw;
\* if (silenceNotices) return; await t.endSync(syncNotice)
PullNotesEnd(i) ==
  /\ task[i].pc = "notes"
  /\ task[i].fetch = {}
  /\ IF task[i].threw
     THEN PullThrew(i, task[i]) /\ UNCHANGED local
     ELSE /\ PullDone(i, task[i], ops, idx)
          /\ local' = local \ deleteConfigs(task[i].removed)
  /\ UNCHANGED <<logVars, settingsVars, robj, feed, clock, left>>

(***************************************************************************)
(* endSync                                                                 *)
(***************************************************************************)

\* The objects rewritten by another party since the search of t was answered:
\* the search asked now would return them, and they are not in its answer.
ModifiedSinceSearch(t) ==
  IF t.failed THEN {}
  ELSE {j \in RecentlyModified \ t.recent : robj[j].born < robj[j].mtime}

\* endSync, retainConfigChanges: getConfigFilesToSync answered;
\* lastSyncedAt = Date.now(); the config files are rewritten in place
EndSyncStamp(i) ==
  /\ task[i].pc = "es_stamp"
  /\ clock' = clock + 1
  /\ lastSyncedAt' = clock'
  /\ Set(i, [Forget(task[i]) EXCEPT !.pc = "es_token",
                                    !.window = ModifiedSinceSearch(task[i])])
  /\ UNCHANGED <<logVars, idx, changesToken, syncing, local, robj, feed, ret, left>>

\* getChangesStartToken answered: changesToken, saveSettings, syncing = false
EndSyncToken(i) ==
  /\ task[i].pc = "es_token"
  /\ changesToken' = Len(feed)
  /\ syncing' = FALSE
  /\ Return(i, task[i], "ok", ops, <<lastSyncedAt, Len(feed)>>)
  /\ UNCHANGED <<logVars, idx, lastSyncedAt, worldVars, left>>

\* if (!changesToken) return new Notice(...)
EndSyncTokenFails(i) ==
  /\ task[i].pc = "es_token"
  /\ UseFault
  /\ Return(i, [task[i] EXCEPT !.failed = TRUE], "notice", ops, Checkpoint)
  /\ UNCHANGED <<logVars, settingsVars, worldVars>>

(***************************************************************************)
(* push, after its silent pull                                             *)
(***************************************************************************)

\* searchFiles({properties: {config: "true"}}) answered; no config object
\* lacks its local file; batchDelete is issued next
PushCfgSearch(i) ==
  /\ task[i].pc = "cfgsearch"
  /\ Set(i, [Forget(task[i]) EXCEPT !.pc = "pdelete"])
  /\ UNCHANGED <<logVars, settingsVars, worldVars, ret, left>>

\* if (!configOnDrive) return new Notice(...)
PushCfgSearchFails(i) ==
  /\ task[i].pc = "cfgsearch"
  /\ UseFault
  /\ Return(i, [task[i] EXCEPT !.failed = TRUE], "notice", ops, Checkpoint)
  /\ UNCHANGED <<logVars, settingsVars, worldVars>>

\* batchDelete(deletes.map(([path]) => pathsToIds[path])) answered, then
\* deletes.forEach(([path]) => delete t.settings.driveIdToPath[path])
DeleteIds(t) == {t.pathToId[p] : p \in t.deletes} \cap {j \in Ids : Live(j)}

PushDelete(i) ==
  /\ task[i].pc = "pdelete"
  /\ LET t == task[i]
     IN IF t.deletes = {}
        THEN UNCHANGED <<robj, feed, idx>>
        ELSE /\ robj' = [j \in Ids |->
                           IF j \in DeleteIds(t)
                           THEN [robj[j] EXCEPT !.st = "dead", !.mtime = 0,
                                                !.born = 0]
                           ELSE robj[j]]
             /\ feed' = feed \o SeqOf(DeleteIds(t))
             /\ idx' = DeleteKeys(idx, t.deletes)
  /\ Set(i, [task[i] EXCEPT !.pc = "pfolders", !.depth = 1,
                            !.files = task[i].creates \cap local,
                            !.unapplied = @ \ task[i].deletes])
  /\ UNCHANGED <<logVars, lastSyncedAt, changesToken, syncing, local, clock,
                 ret, left>>

\* if (!deleteRequest) return new Notice(...)
PushDeleteFails(i) ==
  /\ task[i].pc = "pdelete"
  /\ task[i].deletes # {}
  /\ UseFault
  /\ Return(i, [task[i] EXCEPT !.failed = TRUE], "notice", ops, Checkpoint)
  /\ UNCHANGED <<logVars, settingsVars, worldVars>>

\* files = creates.map(([path]) => vault.getAbstractFileByPath(path)), read
\* as the delete phase ends: its folders and its notes
CreateFolders(t) == {d \in t.files : IsTFolder(d)}
CreateNotes(t) == {f \in t.files : IsTFile(f)}

\* PushFoldersIssue, with the batches issued one on top of the other.
PushFoldersIssueNoBarrier(i) ==
  /\ task[i].pc = "pfolders"
  /\ task[i].depth <= MaxDepth({d \in task[i].files : IsTFolder(d)})
  /\ Set(i, [task[i] EXCEPT
               !.pending = @ \cup {d \in task[i].files :
                                     IsTFolder(d) /\ Depth(d) = task[i].depth},
               !.depth = @ + 1])
  /\ UNCHANGED <<logVars, settingsVars, worldVars, ret, left>>

\* for (const batch of batches) await batchAsyncs(batch.map(...)): the calls
\* of one depth are issued together, once those of the depth before settled
PushFoldersIssue(i) ==
  /\ task[i].pc = "pfolders"
  /\ task[i].pending = {}
  /\ task[i].depth <= MaxDepth(CreateFolders(task[i]))
  /\ Set(i, [task[i] EXCEPT
               !.pending = foldersToBatches(CreateFolders(task[i]), task[i].depth),
               !.depth = @ + 1])
  /\ UNCHANGED <<logVars, settingsVars, worldVars, ret, left>>

\* Created, with the index left as it was.
CreatedUnindexed(i, p) ==
  /\ p \in task[i].pending
  /\ FreeIds # {}
  /\ robj' = [robj EXCEPT ![FreshId] = [st |-> "live", path |-> p,
                                        mtime |-> clock, born |-> clock]]
  /\ UNCHANGED <<logVars, settingsVars, local, feed, clock, ret, left>>

\* createFolder / uploadFile answered with an id: the object exists, tagged
\* with the path, and driveIdToPath[id] = path
Created(i, p) ==
  /\ p \in task[i].pending
  /\ FreeIds # {}
  /\ robj' = [robj EXCEPT ![FreshId] = [st |-> "live", path |-> p,
                                        mtime |-> clock, born |-> clock]]
  /\ idx' = [idx EXCEPT ![FreshId] = p]
  /\ UNCHANGED <<logVars, lastSyncedAt, changesToken, syncing, local, feed, clock,
                 ret, left>>

\* if (!id) return new Notice(...): the closure returns, push goes on
NotCreated(i, p) ==
  /\ p \in task[i].pending
  /\ UseFault
  /\ Set(i, [task[i] EXCEPT !.pending = @ \ {p}, !.settled = @ \cup {p},
                            !.failed = TRUE])
  /\ UNCHANGED <<logVars, settingsVars, worldVars, ret>>

PushFolderCreated(i, d) ==
  /\ task[i].pc = "pfolders"
  /\ Created(i, d)
  /\ Set(i, [task[i] EXCEPT !.pending = @ \ {d}, !.settled = @ \cup {d},
                            !.unapplied = @ \ {d},
                            !.made = @ \cup {<<d, FreshId>>},
                            !.pathToId = [@ EXCEPT ![d] = FreshId]])

PushFolderFails(i, d) ==
  /\ task[i].pc = "pfolders"
  /\ NotCreated(i, d)

\* the folders are done: the notes are read (vault.readBinary) and their
\* uploads issued
PushNotesIssue(i) ==
  /\ task[i].pc = "pfolders"
  /\ task[i].pending = {}
  /\ task[i].depth > MaxDepth(CreateFolders(task[i]))
  /\ IF CreateNotes(task[i]) \subseteq local
     THEN /\ Set(i, [task[i] EXCEPT !.pc = "pnotes",
                                    !.pending = CreateNotes(task[i])])
          /\ UNCHANGED ret
     ELSE \* vault.readBinary(note) of a note deleted meanwhile throws
          Return(i, [task[i] EXCEPT !.failed = TRUE], "threw", ops, Checkpoint)
  /\ UNCHANGED <<logVars, settingsVars, worldVars, left>>

PushNoteCreated(i, f) ==
  /\ task[i].pc = "pnotes"
  /\ Created(i, f)
  /\ Set(i, [task[i] EXCEPT !.pending = @ \ {f}, !.settled = @ \cup {f},
                            !.unapplied = @ \ {f},
                            !.made = @ \cup {<<f, FreshId>>}])

PushNoteFails(i, f) ==
  /\ task[i].pc = "pnotes"
  /\ NotCreated(i, f)

\* modifies.map(([path]) => vault.getFileByPath(path)), a fresh pathToId, and
\* updateFile(pathToId[file.path], ...) issued for each
ModifyNotes(t) == {f \in t.modifies : f \in local /\ IsTFile(f)}

PushModifyIssue(i) ==
  /\ task[i].pc = "pnotes"
  /\ task[i].pending = {}
  /\ Set(i, [task[i] EXCEPT
               !.pc = "pmodify",
               !.modq = {<<f, InvertIndex(idx)[f]>> : f \in ModifyNotes(task[i])}])
  /\ UNCHANGED <<logVars, settingsVars, worldVars, ret, left>>

\* updateFile answered: with the id, or, for no id or an object that is
\* gone, with an error (the closure returns a Notice, push goes on)
PushModified(i, f, id) ==
  /\ task[i].pc = "pmodify"
  /\ <<f, id>> \in task[i].modq
  /\ IF Live(id)
     THEN /\ robj' = [robj EXCEPT ![id].mtime = clock]
          /\ Set(i, [task[i] EXCEPT !.modq = @ \ {<<f, id>>},
                                    !.unapplied = @ \ {f}])
     ELSE /\ robj' = robj
          /\ Set(i, [task[i] EXCEPT !.modq = @ \ {<<f, id>>}, !.failed = TRUE])
  /\ UNCHANGED <<logVars, settingsVars, local, feed, clock, ret, left>>

\* if (!id) return new Notice(...): the closure returns, push goes on
PushModifyFails(i, f, id) ==
  /\ task[i].pc = "pmodify"
  /\ <<f, id>> \in task[i].modq
  /\ UseFault
  /\ Set(i, [task[i] EXCEPT !.modq = @ \ {<<f, id>>}, !.failed = TRUE])
  /\ UNCHANGED <<logVars, settingsVars, worldVars, ret>>

\* the config objects and the settings snapshot are sent
PushConfigIssue(i) ==
  /\ task[i].pc = "pmodify"
  /\ task[i].modq = {}
  /\ Set(i, [task[i] EXCEPT !.pc = "pconfig"])
  /\ UNCHANGED <<logVars, settingsVars, worldVars, ret, left>>

\* The paths whose entry was recorded after push split the log into deletes,
\* creates and modifies: they have an entry, and had none then.
Late(t) ==
  {p \in VaultPaths : ops[p] # "none" /\ p \notin t.deletes \cup t.creates \cup t.modifies}

\* t.settings.operations = {}; endSync(syncNotice, false): lastSyncedAt =
\* Date.now(), and getChangesStartToken is issued
PushClear(i) ==
  /\ task[i].pc = "pconfig"
  /\ ops' = NoOps
  /\ clock' = clock + 1
  /\ lastSyncedAt' = clock'
  /\ Set(i, [task[i] EXCEPT !.pc = "es_token", !.late = Late(task[i])])
  /\ UNCHANGED <<expected, ev, idx, changesToken, syncing, local, robj, feed, ret,
                 left>>

(***************************************************************************)
(* The plug-in with its user, the remote store and the clock               *)
(***************************************************************************)

Init ==
  /\ \E S \in SyncedSets : InitWorld(S)
  /\ task = [i \in Slots |-> IF i = 1 THEN Idle ELSE Off]
  /\ left = Budget

Next ==
  \/ \E i \in Slots : InvokePull(i)
  \/ \E i \in Slots : InvokePush(i)
  \/ \E i \in Slots : InvokeStartup(i)
  \/ \E i \in Slots : InvokeInitial(i)
  \/ \E i \in Slots : PushConfirm(i)
  \/ \E i \in Slots : PushCancel(i)
  \/ \E i \in Slots : StartSyncOk(i)
  \/ \E i \in Slots : StartSyncOffline(i)
  \/ \E i \in Slots : PullSearch(i)
  \/ \E i \in Slots : PullSearchFails(i)
  \/ \E i \in Slots : PullRefreshFails(i)
  \/ \E i \in Slots : PullSearchUnauthorized(i)
  \/ \E i \in Slots : PullChanges(i)
  \/ \E i \in Slots : PullChangesFails(i)
  \/ \E i \in Slots : PullDelete(i)
  \/ \E i \in Slots : PullFolders(i)
  \/ \E i \in Slots : PullNotesStart(i)
  \/ \E i \in Slots, n \in Ids : PullProbe(i, n)
  \/ \E i \in Slots, n \in Ids, how \in {"tfile", "raw"} : PullWrite(i, n, how)
  \/ \E i \in Slots : PullNotesEnd(i)
  \/ \E i \in Slots : EndSyncStamp(i)
  \/ \E i \in Slots : EndSyncToken(i)
  \/ \E i \in Slots : EndSyncTokenFails(i)
  \/ \E i \in Slots : PushCfgSearch(i)
  \/ \E i \in Slots : PushCfgSearchFails(i)
  \/ \E i \in Slots : PushDelete(i)
  \/ \E i \in Slots : PushDeleteFails(i)
  \/ \E i \in Slots : PushFoldersIssue(i)
  \/ \E i \in Slots, d \in Dirs : PushFolderCreated(i, d)
  \/ \E i \in Slots, d \in Dirs : PushFolderFails(i, d)
  \/ \E i \in Slots : PushNotesIssue(i)
  \/ \E i \in Slots, f \in Files \cup Hidden : PushNoteCreated(i, f)
  \/ \E i \in Slots, f \in Files \cup Hidden : PushNoteFails(i, f)
  \/ \E i \in Slots : PushModifyIssue(i)
  \/ \E i \in Slots, f \in Files \cup Hidden, id \in Ids \cup {NoId} : PushModified(i, f, id)
  \/ \E i \in Slots, f \in Files \cup Hidden, id \in Ids \cup {NoId} : PushModifyFails(i, f, id)
  \/ \E i \in Slots : PushConfigIssue(i)
  \/ \E i \in Slots : PushClear(i)
  \/ \E p \in Paths : LocalCreate(p)
  \/ \E p \in Paths : LocalDelete(p)
  \/ \E p \in Paths : LocalModify(p)
  \/ \E p \in Paths : RemoteCreate(p)
  \/ \E j \in Ids : RemoteModify(j)
  \/ \E j \in Ids : RemoteRemove(j)

Spec == Init /\ [][Next]_vars

\* Two slots: a command can be invoked while another invocation is in
\* progress.  One event happens, between invocations.
InitRace ==
  /\ \E S \in SyncedSets : InitWorld(S)
  /\ task = [i \in Slots |-> Idle]
  /\ left = [Budget EXCEPT !.ev = 1, !.live = 0]

SpecRace == InitRace /\ [][Next]_vars

\* One invocation in a world at rest: every remote call succeeds, the events
\* all come before the invocation, and there is one more of them.
InitQuiet ==
  /\ \E S \in SyncedSets : InitWorld(S)
  /\ task = [i \in Slots |-> IF i = 1 THEN Idle ELSE Off]
  /\ left = [ev |-> MaxEvents + 1, live |-> 0, fault |-> 0, sync |-> 1]

NextQuiet ==
  \/ \E i \in Slots : InvokePull(i)
  \/ \E i \in Slots : InvokePush(i)
  \/ \E i \in Slots : InvokeStartup(i)
  \/ \E i \in Slots : InvokeInitial(i)
  \/ \E i \in Slots : PushConfirm(i)
  \/ \E i \in Slots : PushCancel(i)
  \/ \E i \in Slots : StartSyncOk(i)
  \/ \E i \in Slots : PullSearch(i)
  \/ \E i \in Slots : PullChanges(i)
  \/ \E i \in Slots : PullDelete(i)
  \/ \E i \in Slots : PullFolders(i)
  \/ \E i \in Slots : PullNotesStart(i)
  \/ \E i \in Slots, n \in Ids : PullProbe(i, n)
  \/ \E i \in Slots, n \in Ids, how \in {"tfile", "raw"} : PullWrite(i, n, how)
  \/ \E i \in Slots : PullNotesEnd(i)
  \/ \E i \in Slots : EndSyncStamp(i)
  \/ \E i \in Slots : EndSyncToken(i)
  \/ \E i \in Slots : PushCfgSearch(i)
  \/ \E i \in Slots : PushDelete(i)
  \/ \E i \in Slots : PushFoldersIssue(i)
  \/ \E i \in Slots, d \in Dirs : PushFolderCreated(i, d)
  \/ \E i \in Slots : PushNotesIssue(i)
  \/ \E i \in Slots, f \in Files \cup Hidden : PushNoteCreated(i, f)
  \/ \E i \in Slots : PushModifyIssue(i)
  \/ \E i \in Slots, f \in Files \cup Hidden, id \in Ids \cup {NoId} : PushModified(i, f, id)
  \/ \E i \in Slots : PushConfigIssue(i)
  \/ \E i \in Slots : PushClear(i)
  \/ \E p \in Paths : LocalCreate(p)
  \/ \E p \in Paths : LocalDelete(p)
  \/ \E p \in Paths : LocalModify(p)
  \/ \E p \in Paths : RemoteCreate(p)
  \/ \E j \in Ids : RemoteModify(j)
  \/ \E j \in Ids : RemoteRemove(j)

SpecQuiet == InitQuiet /\ [][NextQuiet]_vars

\* One invocation in a vault that may hold a hidden note from before the
\* plug-in had its refresh token (onload registers no handler without one):
\* no log entry tracks the note and no remote object is tagged with it.
InitHidden ==
  /\ \E S \in SyncedSets, H \in SUBSET Hidden :
        InitWorldWith(S, H)
  /\ task = [i \in Slots |-> IF i = 1 THEN Idle ELSE Off]
  /\ left = [Budget EXCEPT !.sync = 1]

SpecHidden == InitHidden /\ [][Next]_vars

\* One invocation in a vault whose internal file may have been synced: it is
\* on disk, indexed, and has its remote object.
InitConfig ==
  /\ \E S \in SyncedSets, C \in SUBSET Internal :
        InitWorldWith(S \cup C, {})
  /\ task = [i \in Slots |-> IF i = 1 THEN Idle ELSE Off]
  /\ left = [Budget EXCEPT !.sync = 1]

SpecConfig == InitConfig /\ [][Next]_vars

(***************************************************************************)
(* The events replayed on an arbitrary log (SpecLog)                       *)
(***************************************************************************)

\* Section 4.1, one path, one event.
Table(s, kind, isFile) ==
  CASE kind = "create" ->
         IF s = "delete" THEN (IF isFile THEN "modify" ELSE "none") ELSE "create"
    [] kind = "delete" -> IF s = "create" THEN "none" ELSE "delete"
    [] kind = "modify" -> IF s \in {"create", "modify"} THEN s ELSE "modify"

TableOn(e, p, kind) ==
  IF shouldSyncFile(p) THEN [e EXCEPT ![p] = Table(e[p], kind, IsTFile(p))] ELSE e

restVars == <<idx, lastSyncedAt, changesToken, syncing, local, robj, feed, clock,
              task, ret, left>>

InitLog ==
  /\ ops \in [LogPaths -> OpKinds]
  /\ expected = ops
  /\ ev = <<"none", NoPath, NoPath>>
  /\ idx = NoIdx
  /\ lastSyncedAt = 0
  /\ changesToken = 0
  /\ syncing = FALSE
  /\ local = {}
  /\ robj = [i \in Ids |-> FreeObj]
  /\ feed = <<>>
  /\ clock = 0
  /\ task = [i \in Slots |-> Off]
  /\ ret = NoRet
  /\ left = Budget

EvCreate(p) ==
  /\ ops' = handleCreate(ops, p)
  /\ expected' = TableOn(expected, p, "create")
  /\ ev' = <<"create", p, NoPath>>

EvDelete(p) ==
  /\ ops' = handleDelete(ops, p)
  /\ expected' = TableOn(expected, p, "delete")
  /\ ev' = <<"delete", p, NoPath>>

\* vault.on("modify") is raised for files only
EvModify(p) ==
  /\ IsTFile(p)
  /\ ops' = handleModify(ops, p)
  /\ expected' = TableOn(expected, p, "modify")
  /\ ev' = <<"modify", p, NoPath>>

\* a rename keeps the kind of the entry
EvRename(new, old) ==
  /\ new # old
  /\ IsTFile(new) = IsTFile(old)
  /\ ops' = handleRename(ops, new, old)
  /\ expected' = TableOn(TableOn(expected, old, "delete"), new, "create")
  /\ ev' = <<"rename", new, old>>

\* The writes of the reconciler, on any path and any log; ev notes the call,
\* its path, and the entry the path had before the call.
CallCreateFolder(p) ==
  /\ ~IsTFile(p)
  /\ ops' = createFolder(ops, p)
  /\ ev' = <<"createFolder", p, <<ops[p]>> >>
  /\ UNCHANGED expected

CallCreateFile(p) ==
  /\ IsTFile(p)
  /\ ops' = createFile(ops, p)
  /\ ev' = <<"createFile", p, <<ops[p]>> >>
  /\ UNCHANGED expected

CallModifyFile(p) ==
  /\ IsTFile(p)
  /\ ops' = modifyFile(ops, p)
  /\ ev' = <<"modifyFile", p, <<ops[p]>> >>
  /\ UNCHANGED expected

CallUpsertFile(p, present) ==
  /\ IsTFile(p)
  /\ ops' = upsertFile(ops, p, present)
  /\ ev' = <<"upsertFile", p, <<ops[p]>> >>
  /\ UNCHANGED expected

NextLog ==
  \/ \E p \in LogPaths : EvCreate(p)
  \/ \E p \in LogPaths : EvDelete(p)
  \/ \E p \in LogPaths : EvModify(p)
  \/ \E new \in LogPaths, old \in LogPaths : EvRename(new, old)
  \/ \E p \in LogPaths : CallCreateFolder(p)
  \/ \E p \in LogPaths : CallCreateFile(p)
  \/ \E p \in LogPaths : CallModifyFile(p)
  \/ \E p \in LogPaths, present \in BOOLEAN : CallUpsertFile(p, present)

SpecLog == InitLog /\ [][NextLog /\ UNCHANGED restVars]_vars

\* C1: after any sequence of create/delete/modify/rename events, from any log
\* state, the entry the handlers leave for every synced path is the one the
\* section 4.1 table gives when applied to the same events in order.
C1_LogFollowsTable ==
  \A p \in LogPaths : shouldSyncFile(p) => ops[p] = expected[p]

\* a deleted note reappears under a rename: delete -> modify
C1_Witness ==
  /\ ev = <<"rename", Xy, GitC>>
  /\ ops[Xy] = "modify"
  /\ expected[Xy] = "modify"

\* C2: at most one invocation of push or pull is past startSync at a time
\* (an invocation made while another is in progress is rejected at entry).
C2_OneSyncAtATime ==
  Cardinality({i \in Slots : /\ task[i].kind \in {"push", "pull"}
                             /\ task[i].pc \notin {"modal", "conn"}}) <= 1

\* C3: when a push returns, with no event during it, every log entry whose
\* remote effect was not applied is still in the log.
C3_UnappliedStayInLog ==
  (ret.kind = "push" /\ ret.quiet) => ret.lost = {}

\* C4: a pull, a push or the startup pull in which a step failed leaves
\* lastSyncedAt and changesToken as they were when it was invoked.
C4_CheckpointOnlyOnSuccess ==
  (ret.kind \in {"pull", "push", "startup"} /\ ret.failed) => ~ret.cpMoved

\* The invocation in slot i is at the end of its pull.
AtPullEnd(i) == task[i].pc \in {"es_stamp", "cfgsearch"}
\* The paths of the objects the pull of t found modified since lastSyncedAt.
Discovered(t) == {Tag(n) : n \in t.recent}

\* C5: during a pull with no event, a note whose entry is modify and whose
\* remote object is in the recently-modified set keeps its local content (it
\* is not removed, not written), is not downloaded, and its entry stays
\* modify up to the end of the pull.
C5_LocalModifyWins ==
  \A i \in Slots :
    task[i].quiet =>
      \A p \in Files :
        (task[i].log0[p] = "modify" /\ p \in Discovered(task[i])) =>
          /\ p \in local
          /\ p \notin task[i].gone \cup task[i].wr \cup task[i].dl
          /\ ops[p] = "modify"

\* C6: during a pull with no event, a note whose entry is create and that a
\* recently-modified remote object is tagged with keeps an entry (create, then
\* modify), and at the end of the pull the entry is modify and the index maps
\* the id of an object so tagged to the path.
C6_CreateCreateConverges ==
  \A i \in Slots :
    task[i].quiet =>
      \A p \in Files :
        (task[i].log0[p] = "create" /\ p \in Discovered(task[i])) =>
          /\ ops[p] \in {"create", "modify"}
          /\ AtPullEnd(i) =>
                /\ ops[p] = "modify"
                /\ \E n \in task[i].recent : Tag(n) = p /\ idx[n] = p

\* A pull by itself: the command, the startup pull, the settings tab's pull.
PullKinds == {"pull", "startup", "initial"}

\* C7: a pull invoked right after a pull that ran to its end, with no event
\* since that one began, writes nothing to the local store.
C7_SecondPullWritesNothing ==
  \A i \in Slots :
    (task[i].kind \in PullKinds /\ task[i].prev \in PullKinds /\ task[i].quiet)
      => task[i].wr \cup task[i].gone = {}

\* The objects the push in slot i made for path p.
MadeFor(i, p) == {m \in task[i].made : m[1] = p}

C9_FolderThenFile ==
  \A i \in Slots :
    task[i].quiet =>
      \A a \in task[i].recent, b \in task[i].recent :
        (/\ IsTFolder(Tag(a)) /\ IsTFile(Tag(b))
         /\ Parent(Tag(b)) = Tag(a)
         /\ robj[a].born > lastSyncedAt /\ robj[b].born > lastSyncedAt
         /\ Tag(a) \notin task[i].loc0 /\ Tag(b) \notin task[i].loc0) =>
          /\ Tag(b) \in task[i].wr => Tag(a) \in task[i].wr
          /\ AtPullEnd(i) => ops[Tag(a)] = "none" /\ ops[Tag(b)] = "none"

\* C10: in the create phase of a push, a create call for a folder is in
\* flight only when the create call of every shallower folder of the create
\* set has settled, and an upload is in flight only when the create call of
\* every folder of the create set has settled.
C10_DepthBarrier ==
  \A i \in Slots :
    /\ task[i].pc = "pfolders" =>
         \A d \in task[i].pending, e \in CreateFolders(task[i]) :
           Depth(e) < Depth(d) => e \in task[i].settled
    /\ task[i].pc = "pnotes" =>
         (task[i].pending # {} => CreateFolders(task[i]) \subseteq task[i].settled)

C10_Witness ==
  \E i \in Slots :
    /\ task[i].pc = "pfolders"
    /\ XZ \in task[i].pending
    /\ X \in CreateFolders(task[i])
    /\ <<X, 1>> \in task[i].made

\* C11: a push cancelled at its confirmation, with no entry reverted and no
\* event since it was invoked, returns with the log, the index, the
\* checkpoint, the syncing flag and the remote objects as they were when it
\* was invoked.
C11_CancelNoSideEffects ==
  (ret.kind = "push" /\ ret.outcome = "cancel" /\ ret.quiet) =>
    ret.entry = {} /\ ~ret.cpMoved

\* C12: in every reachable state the index is injective: no two remote ids
\* of driveIdToPath map to the same path.
C12_IndexInjective ==
  \A a \in Ids, b \in Ids : (idx[a] # NoPath /\ idx[a] = idx[b]) => a = b

\* The ids the push of t sent to batchDelete.
SentToDelete(t) == {t.pathToId[p] : p \in t.deletes} \ {NoId}
\* The push in slot i is past its delete phase.
PastDelete(i) ==
  /\ task[i].kind = "push"
  /\ task[i].pc \in {"pfolders", "pnotes", "pmodify", "pconfig", "es_token"}
\* The pull in slot i is past its removal resolution and its updateMap.
PastRemovals(i) == task[i].pc \in {"delete", "folders", "notes"}

C13_PushHalf ==
  \A i \in Slots :
    (PastDelete(i) /\ task[i].quiet) =>
      \A j \in SentToDelete(task[i]) : idx[j] = NoPath
C13_PullHalf ==
  \A i \in Slots :
    (PastRemovals(i) /\ task[i].quiet) =>
      \A j \in task[i].removed : idx[j] = NoPath

\* C13: with no event during the invocation, once the batch delete of a push
\* has succeeded the index holds no entry for the id of any object it
\* deleted, and once a pull has processed the removal of id j the index holds
\* no entry for j.
C13_EntryDiesWithObject == C13_PushHalf /\ C13_PullHalf

\* The folders of the deletion set of the pull in slot i that no id maps to
\* any more, read as the deletion phase has filtered them.
RemovedFolders(i) ==
  IF task[i].pc = "delete" /\ task[i].quiet
  THEN {d \in task[i].deletions : IsTFolder(d) /\ task[i].pathToId[d] = NoId}
  ELSE {}
HasChildOutside(i, d) == \E c \in Children(d, local) : c \notin task[i].deletions

C14_KeptWhenChildOutside ==
  \A i \in Slots : \A d \in RemovedFolders(i) :
    HasChildOutside(i, d) => (d \notin task[i].pending /\ ops[d] = "create")
C14_DeletedWhenAllInside ==
  \A i \in Slots : \A d \in RemovedFolders(i) :
    ~HasChildOutside(i, d) => d \in task[i].pending

\* C14: in the deletion phase of a pull, a local folder whose remote object
\* was removed is kept and marked create when it has a child outside the
\* deletion set, and is handed to the local deletion when all its children
\* are in the deletion set.
C14_PartialFolderDeferred == C14_KeptWhenChildOutside /\ C14_DeletedWhenAllInside

\* C15: a push or a pull command whose connection check fails, with no event
\* since it was invoked, returns with the log, the index, the checkpoint and
\* the syncing flag as they were when it was invoked.
C15_OfflineMutatesNothing ==
  (ret.kind \in {"push", "pull"} /\ ret.outcome = "offline" /\ ret.quiet) =>
    /\ ret.entry \cap {"operations", "driveIdToPath", "checkpoint", "syncing"} = {}
    /\ ~ret.cpMoved

\* C16: a pull whose refresh of the access token has failed has no remote
\* call in flight (no search, no change-feed call, no download).
C16_NoCallWithoutCredential ==
  \A i \in Slots : task[i].pc # "unauth"

\* The push in slot i has a remote delete, create or update call in flight.
PushCallInFlight(i) ==
  /\ task[i].kind = "push"
  /\ \/ task[i].pc = "pdelete" /\ task[i].deletes # {}
     \/ task[i].pc \in {"pfolders", "pnotes"} /\ task[i].pending # {}
     \/ task[i].pc = "pmodify" /\ task[i].modq # {}

FailedCreates(i) ==
  IF task[i].kind = "push" /\ task[i].pc \in {"pfolders", "pnotes", "pmodify", "pconfig"}
  THEN {p \in task[i].settled : MadeFor(i, p) = {}}
  ELSE {}
\* The push in slot i has an upload, an update, or the config and snapshot
\* calls in flight.
UploadInFlight(i) == task[i].pc = "pnotes" /\ task[i].pending # {}
UpdateInFlight(i) == task[i].pc = "pmodify" /\ task[i].modq # {}
ConfigInFlight(i) == task[i].pc = "pconfig"

\* C18: a push in which a folder create failed issues no upload, no update
\* and no config or snapshot call, and a push in which an upload failed
\* issues no update and no config or snapshot call.
C18_FailureHaltsPush ==
  \A i \in Slots :
    /\ (\E d \in FailedCreates(i) : IsTFolder(d)) =>
         ~(UploadInFlight(i) \/ UpdateInFlight(i) \/ ConfigInFlight(i))
    /\ (\E f \in FailedCreates(i) : IsTFile(f)) =>
         ~(UpdateInFlight(i) \/ ConfigInFlight(i))

\* The notes of the deletion set of the pull in slot i whose entry was modify
\* when the pull began, for a pull with no event during it.
ModifiedAndRemoved(i) ==
  IF task[i].quiet
  THEN {p \in task[i].deletions : IsTFile(p) /\ task[i].log0[p] = "modify"}
  ELSE {}

C19_NotDeleted ==
  \A i \in Slots : \A p \in ModifiedAndRemoved(i) :
    p \in local /\ p \notin task[i].gone
C19_FlippedToCreate ==
  \A i \in Slots : \A p \in ModifiedAndRemoved(i) :
    (task[i].pc = "delete" /\ task[i].pathToId[p] = NoId) => ops[p] = "create"

\* C19: in the deletion phase of a pull, a local note whose remote object
\* was removed and whose entry is modify is not deleted locally, and when no
\* id maps to its path any more its entry is create once the set is filtered.
C19_ModifiedNoteSurvives == C19_NotDeleted /\ C19_FlippedToCreate

InPull(i) ==
  task[i].pc \in {"search", "unauth", "changes", "delete", "folders", "notes",
                  "cfgsearch"}
    \/ (task[i].kind = "startup" /\ task[i].pc = "es_stamp")

\* C21: from the invocation of a silent pull (that of a push, of onload, of
\* the settings tab) to its return, on every path, lastSyncedAt, changesToken
\* and the syncing flag have the values they had when it was invoked, and the
\* pull does not run endSync by itself.
C21_SilentPullLeavesCheckpoint ==
  /\ \A i \in Slots :
       task[i].kind \in {"push", "startup", "initial"} =>
         /\ InPull(i) => task[i].in0 = <<lastSyncedAt, changesToken, syncing>>
         /\ task[i].kind # "startup" => task[i].pc # "es_stamp"
  /\ ~ret.pullMoved

\* the silent pull of a push has returned after it deleted and wrote
\* local entries
C21_Witness ==
  \E i \in Slots :
    /\ task[i].kind = "push"
    /\ task[i].pc = "cfgsearch"
    /\ task[i].wr # {}
    /\ task[i].in0 = <<lastSyncedAt, changesToken, TRUE>>

\* C22: once a pull has run its removal phases without a failure, an internal
\* path that was on disk and indexed to a removed id when the pull took the
\* removals up is on disk no more.
C22_InternalRemovalApplied ==
  \A i \in Slots :
    (AtPullEnd(i) /\ ~task[i].failed /\ ~task[i].threw) =>
      task[i].internal \cap local = {}

\* No invocation is past startSync.
NoneLocked == \A i \in Slots : task[i].pc \in {"idle", "modal", "conn"}

\* C23: when a push or a non-silent pull that got through startSync has
\* returned, with or without a failed remote call, and no invocation has got
\* through startSync since, syncing is false.
C23_LockReleasedOnReturn ==
  (/\ ret.kind \in {"pull", "push"}
   /\ ret.outcome \notin {"cancel", "offline"}
   /\ NoneLocked)
    => ~syncing

\* C24: after push has cleared the log, and up to its return when no event
\* follows, a path whose entry was recorded between the partition of the log
\* and the clearing still has an entry.
C24_LateEventKept ==
  \A i \in Slots :
    (task[i].kind = "push" /\ task[i].pc = "es_token") =>
      \A p \in task[i].late : ops[p] # "none"

\* C25: the recent-modifications search of an invocation begun after the last
\* sync stamped lastSyncedAt, with no event since that sync returned, returns
\* every object that another party rewrote between the search of that sync
\* and its stamp.
C25_WindowReturnedByNextPull ==
  \A i \in Slots :
    (task[i].pc = "changes" /\ task[i].cp0[1] = lastSyncedAt) =>
      \A j \in ret.window : Live(j) => j \in task[i].recent

\* The calls of the reconciler that write locally.
LocalWrites == {"createFolder", "createFile", "modifyFile", "upsertFile"}

\* C26: after createFolder, createFile, modifyFile or upsertFile on a path,
\* from any log, the entry of the path (its kind, or none) is the one the
\* path had before the call.
C26_WriteKeepsEntry ==
  ev[1] \in LocalWrites => ops[ev[2]] = ev[3][1]

\* upsertFile has written a note whose entry is delete: the create event made
\* it modify, and delete was put back
C26_Witness ==
  /\ ev[1] = "upsertFile"
  /\ ev[2] = Xy
  /\ ev[3] = <<"delete">>
  /\ ops[Xy] = "delete"
  /\ handleCreate(ops, Xy)[Xy] = "modify"

\* C27: when an invocation has returned out of endSync with lastSyncedAt
\* moved, the fetch of the changes token had succeeded and changesToken was
\* assigned; and a pull, push or start-up that returned with its endSync
\* done has moved lastSyncedAt.
C27_HalvesAdvanceTogether ==
  /\ ret.stamped => ret.outcome = "ok"
  /\ (ret.kind \in {"pull", "push", "startup"} /\ ret.outcome = "ok") => ret.stamped

\* A live remote object is tagged with p.
OnRemote(p) == \E j \in Ids : Live(j) /\ Tag(j) = p

\* C28: when a push with no failed call and no event during it has cleared
\* the log, a note whose entry was delete and whose remote object had been
\* modified since the checkpoint is either held on both sides or on neither.
C28_DeleteConverges ==
  \A i \in Slots :
    (/\ task[i].kind = "push"
     /\ task[i].pc = "es_token"
     /\ task[i].quiet
     /\ ~task[i].failed)
      => \A p \in task[i].delmod : (p \in local) <=> OnRemote(p)

====
